---- MODULE Spec2Model ----
(***************************************************************************)
(* The synthesis pipeline of HackSynced: the controller's runSynthesis,    *)
(* SynthesisService.synthesizePair with its four worker stages, the pair   *)
(* resolver _findPairedResponses, and the SynthesisResult / AgentResponse  *)
(* collections.                                                            *)
(*                                                                         *)
(* Numbers in [0,1] are kept as integer percents (0.5 is 50, 0.89 is 89).  *)
(* A JavaScript number that may be undefined is a sequence: <<>> is        *)
(* undefined, <<n>> is the number n.  A string that may be undefined is a  *)
(* string, "" standing for both undefined and the empty string (both are   *)
(* falsy, and the code only ever tests them with ||).                      *)
(***************************************************************************)
EXTENDS Integers, Sequences, FiniteSets, TLC

VARIABLES
    responses,    \* the AgentResponse collection, in creation order; _id = index
    linking,      \* saveBothGeminiResponses in flight: the link writes not yet applied
    results,      \* the SynthesisResult collection, in insertion order
    call,         \* per request handler: the position and locals of runSynthesis
    runs,         \* number of runSynthesis requests received so far
    firstResult,  \* history: per token, the first result content returned to a caller
    probe,        \* the last outcome of _findPairedResponses observed on its own
    pending,      \* the last answer of findPairsForSynthesis
    twin,         \* two invocations of one stage's worker, side by side
    proc,         \* one invocation of a stage's worker with its timer
    stats         \* getSynthesisStats: its position and what it has read

vars == <<responses, linking, results, call, runs, firstResult, probe, pending, twin, proc, stats>>

(***************************************************************************)
(* Bounds of the model.                                                    *)
(***************************************************************************)
MaxRuns == 3        \* runSynthesis requests per behaviour
MaxResp == 3        \* AgentResponse documents created per behaviour
MaxSession == 2     \* session ids in use
MaxChunks == 2      \* chunks a worker writes to standard error per invocation

(***************************************************************************)
(* Program constants.                                                      *)
(***************************************************************************)
DefaultConfidence == 50            \* mlResult.confidence || 0.5
ConfidenceMin == 0                 \* synthesisResultSchema.confidence.min
ConfidenceMax == 100               \* synthesisResultSchema.confidence.max
FallbackContradictionScore == 30   \* contradiction_score: 0.3
FallbackResultScore == 50          \* _getFallbackResult: every score 0.5
DefaultDetectorConfidence == 50    \* contradiction_score || 0.5
RecentLimit == 10                  \* .limit(10) of the legacy strategy
DefaultPairLimit == 20             \* parseInt(req.query.limit) || 20
PairSize == 2                      \* $size of a group that is a pair

Verdicts == {"support", "oppose", "inconclusive", "mixed"}
AgentTypes == {"support", "oppose"}
Stages == {"quality", "contradiction", "synthesis", "explanation"}
Calls == {1, 2}

Undefined == <<>>
Num(n) == <<n>>

\* x || d for a number: undefined and 0 are falsy
OrNum(x, d) == IF x = Undefined \/ x = Num(0) THEN d ELSE x[1]

\* x || d for a string: undefined and "" are falsy
OrStr(x, d) == IF x = "" THEN d ELSE x

(***************************************************************************)
(* Pair tokens.  A token is the sequence of the parts that split('_')      *)
(* yields: <<1, 2>> is "1_2", <<1>> is "1", <<PairWord, 7>> is "pair_7".   *)
(* A part is a response id (an ObjectId string) or the word "pair".        *)
(***************************************************************************)
PairWord == 0

Ids == 1..(MaxResp + 1)    \* MaxResp + 1 is the id of no response

Tokens ==
    {<<a>> : a \in Ids} \cup {<<a, b>> : a, b \in Ids}
        \cup {<<PairWord, 7>>, <<1, 2, 3>>}

IncludesUnderscore(token) == Len(token) > 1
StartsWithPair(token) == Len(token) > 1 /\ token[1] = PairWord

\* AgentResponse.findById(id).lean(): the document's id, 0 for null
FindById(resp, id) == IF id \in 1..Len(resp) THEN id ELSE 0

\* can the string be cast to an ObjectId (else the query throws CastError)
IsObjectId(token) == Len(token) = 1 /\ token[1] # PairWord

NoPair == [found |-> FALSE, support |-> 0, oppose |-> 0]
Pair(s, o) == [found |-> TRUE, support |-> s, oppose |-> o]

Strategies == {"split", "legacy", "xref", "single"}

\* Strategy 1: "supportId_opposeId", both fetched by id
\* (SplitStrategyNoNullCheck: without the test of support && oppose)
SplitStrategyNoNullCheck(resp, token, errs) ==
    IF IncludesUnderscore(token) /\ ~StartsWithPair(token) /\ Len(token) = 2
          /\ "split" \notin errs
          /\ token[1] # PairWord /\ token[2] # PairWord
    THEN Pair(token[1], token[2])
    ELSE NoPair

SplitStrategy(resp, token, errs) ==
    IF IncludesUnderscore(token) /\ ~StartsWithPair(token) /\ Len(token) = 2
          /\ "split" \notin errs
          /\ token[1] # PairWord /\ token[2] # PairWord
          /\ FindById(resp, token[1]) # 0 /\ FindById(resp, token[2]) # 0
    THEN Pair(token[1], token[2])
    ELSE NoPair

\* the ten most recently created responses, newest first
RecentIds(resp) ==
    LET n == IF Len(resp) < RecentLimit THEN Len(resp) ELSE RecentLimit
    IN  [k \in 1..n |-> Len(resp) + 1 - k]

\* first element of the sequence of ids satisfying the test, 0 if none
\* (FindLast: the last such element)
RECURSIVE FindLast(_, _, _)
FindLast(ids, resp, type) ==
    IF ids = <<>> THEN 0
    ELSE LET rest == FindLast(Tail(ids), resp, type)
         IN  IF rest # 0 THEN rest
             ELSE IF resp[Head(ids)].agentType = type THEN Head(ids)
             ELSE 0

RECURSIVE FindFirst(_, _, _)
FindFirst(ids, resp, type) ==
    IF ids = <<>> THEN 0
    ELSE IF resp[Head(ids)].agentType = type THEN Head(ids)
    ELSE FindFirst(Tail(ids), resp, type)

\* the ids of a sequence that belong to one session, order kept
RECURSIVE OfSession(_, _, _)
OfSession(ids, resp, sid) ==
    IF ids = <<>> THEN <<>>
    ELSE IF resp[Head(ids)].sessionId = sid
         THEN <<Head(ids)>> \o OfSession(Tail(ids), resp, sid)
         ELSE OfSession(Tail(ids), resp, sid)

\* the session ids of a sequence of responses in order of first occurrence
\* (the key order of the bySession object)
RECURSIVE SessionOrder(_, _, _)
SessionOrder(ids, resp, seen) ==
    IF ids = <<>> THEN <<>>
    ELSE LET sid == resp[Head(ids)].sessionId
         IN  IF sid \in seen THEN SessionOrder(Tail(ids), resp, seen)
             ELSE <<sid>> \o SessionOrder(Tail(ids), resp, seen \cup {sid})

RECURSIVE FirstCompleteSession(_, _, _)
FirstCompleteSession(sids, ids, resp) ==
    IF sids = <<>> THEN NoPair
    ELSE LET group == OfSession(ids, resp, Head(sids))
             support == FindFirst(group, resp, "support")
             oppose == FindFirst(group, resp, "oppose")
         IN  IF support # 0 /\ oppose # 0 THEN Pair(support, oppose)
             ELSE FirstCompleteSession(Tail(sids), ids, resp)

\* Strategy 2: "pair_..." tokens, first recent session holding both agent types
LegacyStrategy(resp, token, errs) ==
    IF StartsWithPair(token) /\ "legacy" \notin errs
    THEN LET recent == RecentIds(resp)
         IN  FirstCompleteSession(SessionOrder(recent, resp, {}), recent, resp)
    ELSE NoPair

\* Strategy 3: the responses whose synthesisPairId field equals the token
\* (CrossReferenceAnyMatch: without the tests of the count and of the types)
CrossReferenceAnyMatch(resp, token, errs) ==
    IF IsObjectId(token) /\ "xref" \notin errs
    THEN LET found == {i \in 1..Len(resp) : resp[i].synthesisPairId = token[1]}
         IN  IF found # {}
             THEN Pair(CHOOSE i \in found : \A j \in found : i <= j,
                       CHOOSE i \in found : \A j \in found : j <= i)
             ELSE NoPair
    ELSE NoPair

CrossReferenceStrategy(resp, token, errs) ==
    IF IsObjectId(token) /\ "xref" \notin errs
    THEN LET found == {i \in 1..Len(resp) : resp[i].synthesisPairId = token[1]}
             sup == {i \in found : resp[i].agentType = "support"}
             opp == {i \in found : resp[i].agentType = "oppose"}
         IN  IF Cardinality(found) = 2 /\ sup # {} /\ opp # {}
             THEN Pair(CHOOSE i \in sup : TRUE, CHOOSE i \in opp : TRUE)
             ELSE NoPair
    ELSE NoPair

\* Strategy 4: the token is one response id; follow its synthesisPairId
\* (SingleIdStrategyMainFirst: the response asked for always takes the support
\* position)
SingleIdStrategyMainFirst(resp, token, errs) ==
    IF IsObjectId(token) /\ "single" \notin errs
    THEN LET main == FindById(resp, token[1])
             counterpart == IF main = 0 THEN 0
                            ELSE FindById(resp, resp[main].synthesisPairId)
         IN  IF main # 0 /\ counterpart # 0
             THEN Pair(main, counterpart)
             ELSE NoPair
    ELSE NoPair

\* (SingleIdStrategyNewestCounterpart: the counterpart is the newest response of
\* the other agent type in the same session instead)
SingleIdStrategyNewestCounterpart(resp, token, errs) ==
    IF IsObjectId(token) /\ "single" \notin errs
    THEN LET main == FindById(resp, token[1])
             others == IF main = 0 THEN {}
                       ELSE {i \in 1..Len(resp) :
                               /\ resp[i].sessionId = resp[main].sessionId
                               /\ resp[i].agentType # resp[main].agentType}
             counterpart == IF others = {} THEN 0
                            ELSE CHOOSE i \in others : \A j \in others : j <= i
         IN  IF main # 0 /\ counterpart # 0
             THEN IF resp[main].agentType = "support"
                  THEN Pair(main, counterpart)
                  ELSE Pair(counterpart, main)
             ELSE NoPair
    ELSE NoPair

SingleIdStrategy(resp, token, errs) ==
    IF IsObjectId(token) /\ "single" \notin errs
    THEN LET main == FindById(resp, token[1])
             counterpart == IF main = 0 THEN 0
                            ELSE FindById(resp, resp[main].synthesisPairId)
         IN  IF main # 0 /\ counterpart # 0
             THEN IF resp[main].agentType = "support"
                  THEN Pair(main, counterpart)
                  ELSE Pair(counterpart, main)
             ELSE NoPair
    ELSE NoPair

\* _findPairedResponses: the strategies in order; errs are the strategies whose
\* lookup throws (each is caught inside its strategy).  NoPair is the throw of
\* 'Could not find synthesis pair'.
FindPairedResponses(resp, token, errs) ==
    LET s1 == SplitStrategy(resp, token, errs)
        s2 == LegacyStrategy(resp, token, errs)
        s3 == CrossReferenceStrategy(resp, token, errs)
        s4 == SingleIdStrategy(resp, token, errs)
    IN  IF s1.found THEN s1
        ELSE IF s2.found THEN s2
        ELSE IF s3.found THEN s3
        ELSE s4

\* the strategies in the order _findPairedResponses tries them
StrategyOrder == <<"split", "legacy", "xref", "single">>

\* does the code issue the strategy's lookup for this token: the split lookup
\* only for "a_b" not starting with "pair_", the recent-session lookup only for
\* "pair_..."; strategies 3 and 4 are not guarded
Applicable(st, token) ==
    CASE st = "split" -> IncludesUnderscore(token) /\ ~StartsWithPair(token)
                            /\ Len(token) = 2
      [] st = "legacy" -> StartsWithPair(token)
      [] OTHER -> TRUE

StrategyPair(st, resp, token, errs) ==
    CASE st = "split" -> SplitStrategy(resp, token, errs)
      [] st = "legacy" -> LegacyStrategy(resp, token, errs)
      [] st = "xref" -> CrossReferenceStrategy(resp, token, errs)
      [] st = "single" -> SingleIdStrategy(resp, token, errs)

\* did the strategy's lookup throw into its catch: a failed query, or a token
\* that cannot be cast to an ObjectId
StrategyThrew(st, token, errs) ==
    \/ st \in errs
    \/ st \in {"xref", "single"} /\ ~IsObjectId(token)
    \/ st = "split" /\ (token[1] = PairWord \/ token[2] = PairWord)

AttemptOf(st, outcome, pair) == [strategy |-> st, outcome |-> outcome, pair |-> pair]

\* the strategies _findPairedResponses goes through from the k-th on, each with
\* its outcome ("found", "miss", "error"), as its console lines report them:
\* a found pair returns, a miss or a caught error falls through to the next
RECURSIVE AttemptsAbortOnError(_, _, _, _)
AttemptsAbortOnError(k, resp, token, errs) ==
    IF k > Len(StrategyOrder) THEN <<>>
    ELSE LET st == StrategyOrder[k]
             pair == StrategyPair(st, resp, token, errs)
         IN  IF ~Applicable(st, token) THEN AttemptsAbortOnError(k + 1, resp, token, errs)
             ELSE IF pair.found THEN <<AttemptOf(st, "found", pair)>>
             ELSE IF StrategyThrew(st, token, errs)
                  THEN <<AttemptOf(st, "error", NoPair)>>
             ELSE <<AttemptOf(st, "miss", NoPair)>>
                      \o AttemptsAbortOnError(k + 1, resp, token, errs)

RECURSIVE AttemptsFrom(_, _, _, _)
AttemptsFrom(k, resp, token, errs) ==
    IF k > Len(StrategyOrder) THEN <<>>
    ELSE LET st == StrategyOrder[k]
             pair == StrategyPair(st, resp, token, errs)
         IN  IF ~Applicable(st, token) THEN AttemptsFrom(k + 1, resp, token, errs)
             ELSE IF pair.found THEN <<AttemptOf(st, "found", pair)>>
             ELSE <<AttemptOf(st, IF StrategyThrew(st, token, errs) THEN "error" ELSE "miss",
                              NoPair)>>
                      \o AttemptsFrom(k + 1, resp, token, errs)

(***************************************************************************)
(* Worker processes.  One run of a worker is what the parent observes of   *)
(* it: the event that settles the invocation first (kind), and what the    *)
(* worker had written to standard output by then: whether JSON.parse       *)
(* accepts it (parses) and the value it parses to (body).                  *)
(***************************************************************************)
RunKinds == {"exit0", "exitN", "spawn", "write", "timeout"}

WorkerRun(kind, parses, body) == [kind |-> kind, parses |-> parses, body |-> body]

\* the runs of a worker whose parsed outputs range over bodies; none is the
\* stage's placeholder body for output that does not parse or is never read
RunsOf(bodies, none) ==
    {WorkerRun(k, TRUE, b) : k \in {"exit0", "exitN"}, b \in bodies}
        \cup {WorkerRun(k, FALSE, none) : k \in RunKinds}

\* the worker failed: anything but a clean exit with parseable output
WorkerFailed(run) == ~(run.kind = "exit0" /\ run.parses)

(***************************************************************************)
(* Quality stage (_runEvidenceJudge) and Contradiction stage               *)
(* (_runContradictionDetector).  A stage value is the JavaScript value the *)
(* promise resolves to: null, or an object with success, the payload       *)
(* (evidence_judgment / contradiction_analysis: "real" when the worker     *)
(* reported one, "undef" when the key is absent) and error.                *)
(***************************************************************************)
StageValue(isNull, success, payload, error) ==
    [isNull |-> isNull, success |-> success, payload |-> payload, error |-> error]

StageNull == StageValue(TRUE, FALSE, "undef", "")
StageFail(error) == StageValue(FALSE, FALSE, "undef", error)

\* output bodies of the Quality and Contradiction workers
StageBodies ==
    { StageValue(FALSE, TRUE, "real", ""),       \* {success: true, <payload>}
      StageValue(FALSE, TRUE, "undef", ""),      \* {success: true}
      StageValue(FALSE, FALSE, "undef", "err"),  \* {success: false, error}
      StageNull }                                \* null

\* the value both wrappers resolve with: the close handler, the error handler,
\* the catch around stdin.write, and the timer
RunStageWorker(run) ==
    CASE run.kind = "exit0" ->
            IF run.parses THEN run.body ELSE StageFail("Parse error")
      [] run.kind = "exitN" -> StageFail("Exit code 1")
      [] run.kind = "spawn" -> StageFail("spawn python3 ENOENT")
      [] run.kind = "write" -> StageFail("write EPIPE")
      [] run.kind = "timeout" -> StageFail("Timeout")

RunEvidenceJudge(run) == RunStageWorker(run)

RunContradictionDetector(run) == RunStageWorker(run)

\* the objects injected into mlData (Step 3.7).  An injected object is
\* "real" (the worker's), "fallback" (the literal of the code) or "undef".
\* Reading .success of null throws a TypeError.
InjectThrows(ej, ca) == ej.isNull \/ ca.isNull

InjectJudgment(ej) == IF ej.success THEN ej.payload ELSE "fallback"

InjectContradiction(ca) == IF ca.success THEN ca.payload ELSE "fallback"

(***************************************************************************)
(* Synthesis stage (_runMLSynthesisPipeline).  mlResult is null or an      *)
(* object; scores is kept by the two keys that matter to the store:        *)
(* scores.contradictions.contradiction_score (the worker protocol's key)   *)
(* and scores.contradictionScore (a key of mlScoreSchema).                 *)
(***************************************************************************)
MlObject(success, verdict, confidence, reasoning, cs, ke, error) ==
    [ isNull |-> FALSE, success |-> success, error |-> error,
      final_verdict |-> verdict, confidence |-> confidence,
      reasoning |-> reasoning,
      scores |-> [contradictions |-> cs, contradictionScore |-> Undefined],
      key_evidence |-> ke ]

MlNull ==
    [ isNull |-> TRUE, success |-> FALSE, error |-> "",
      final_verdict |-> "", confidence |-> Undefined, reasoning |-> "",
      scores |-> [contradictions |-> Undefined, contradictionScore |-> Undefined],
      key_evidence |-> <<>> ]

FallbackReasoningOf(error) ==
    "ML synthesis encountered an issue: " \o error
        \o ". Both arguments have merit but a definitive verdict cannot be determined at this time."

\* _getFallbackResult(error)
GetFallbackResult(error) ==
    MlObject(FALSE, "inconclusive", Num(DefaultConfidence), FallbackReasoningOf(error),
             Num(FallbackResultScore), <<>>, error)

SynthesisErrors ==
    { "Parse error", "Python exit code 1", "Process error: spawn python3 ENOENT",
      "Failed to write to Python: write EPIPE", "ML pipeline timeout (60s)" }

\* the value _runMLSynthesisPipeline resolves with
RunMLSynthesisPipeline(run) ==
    CASE run.kind = "exit0" ->
            IF run.parses THEN run.body ELSE GetFallbackResult("Parse error")
      [] run.kind = "exitN" ->
            IF run.parses THEN run.body ELSE GetFallbackResult("Python exit code 1")
      [] run.kind = "spawn" -> GetFallbackResult("Process error: spawn python3 ENOENT")
      [] run.kind = "write" -> GetFallbackResult("Failed to write to Python: write EPIPE")
      [] run.kind = "timeout" -> GetFallbackResult("ML pipeline timeout (60s)")

(***************************************************************************)
(* Explanation stage (_generateGrokExplanation): null, or an object with   *)
(* success and explanation.                                                *)
(***************************************************************************)
GrokValue(isNull, success, explanation) ==
    [isNull |-> isNull, success |-> success, explanation |-> explanation]

GrokFail == GrokValue(FALSE, FALSE, "")

GrokBodies ==
    { GrokValue(FALSE, TRUE, "grok explanation"),   \* {success: true, explanation}
      GrokValue(FALSE, TRUE, ""),                   \* {success: true}
      GrokValue(FALSE, FALSE, "no api key"),        \* {success: false, explanation}
      GrokValue(TRUE, FALSE, "") }                  \* null

GenerateGrokExplanation(run) ==
    IF run.kind = "exit0" /\ run.parses THEN run.body ELSE GrokFail

\* Step 4.5: a successful explanation replaces mlResult.reasoning
OverlayAlsoConfidence(mlResult, grok) ==
    IF ~grok.isNull /\ grok.success
    THEN [mlResult EXCEPT !.reasoning = grok.explanation,
                          !.confidence = Num(ConfidenceMax)]
    ELSE mlResult

OverlayExplanation(mlResult, grok) ==
    IF ~grok.isNull /\ grok.success
    THEN [mlResult EXCEPT !.reasoning = grok.explanation]
    ELSE mlResult

(***************************************************************************)
(* The SynthesisResult collection.                                         *)
(***************************************************************************)
\* strict casting of mlResult.scores to mlScoreSchema: only the schema's own
\* keys are kept
CastMlScores(scores) == [contradictionScore |-> scores.contradictionScore]

\* new SynthesisResult({...}) of _saveSynthesisResult
\* (BuildDocStatusFromSuccess: the status taken from mlResult.success)
BuildDocStatusFromSuccess(token, support, oppose, mlResult) ==
    [ synthesisPairId |-> token,
      supportResponseId |-> support,
      opposeResponseId |-> oppose,
      verdict |-> OrStr(mlResult.final_verdict, "inconclusive"),
      confidence |-> OrNum(mlResult.confidence, DefaultConfidence),
      reasoning |-> OrStr(mlResult.reasoning, "No reasoning provided"),
      mlScores |-> CastMlScores(mlResult.scores),
      keyEvidence |-> mlResult.key_evidence,
      detectorConfidence |->
          OrNum(mlResult.scores.contradictions, DefaultDetectorConfidence),
      status |-> IF mlResult.success THEN "completed" ELSE "failed" ]

BuildDoc(token, support, oppose, mlResult) ==
    [ synthesisPairId |-> token,
      supportResponseId |-> support,
      opposeResponseId |-> oppose,
      verdict |-> OrStr(mlResult.final_verdict, "inconclusive"),
      confidence |-> OrNum(mlResult.confidence, DefaultConfidence),
      reasoning |-> OrStr(mlResult.reasoning, "No reasoning provided"),
      mlScores |-> CastMlScores(mlResult.scores),
      keyEvidence |-> mlResult.key_evidence,
      detectorConfidence |->
          OrNum(mlResult.scores.contradictions, DefaultDetectorConfidence),
      status |-> "completed" ]

\* the schema's validators, run by save(): verdict enum, confidence min and max
NoValidation(doc) == TRUE

ValidDoc(doc) ==
    /\ doc.verdict \in Verdicts
    /\ doc.confidence >= ConfidenceMin
    /\ doc.confidence <= ConfidenceMax

\* the unique index on synthesisPairId: does an insert of this key conflict
NoUniqueIndex(store, token) == FALSE

DuplicateKey(store, token) ==
    \E i \in 1..Len(store) : store[i].synthesisPairId = token

\* SynthesisResult.findOne({ synthesisPairId }): index of the document, 0 for null
FindOneOtherKey(store, token) == 0

FindOneResult(store, token) ==
    IF \E i \in 1..Len(store) : store[i].synthesisPairId = token
    THEN CHOOSE i \in 1..Len(store) :
            /\ store[i].synthesisPairId = token
            /\ \A j \in 1..(i - 1) : store[j].synthesisPairId # token
    ELSE 0

\* formatForFrontend: the content of a result as returned to the caller
NoContent ==
    [ id |-> 0, verdict |-> "", confidence |-> 0, reasoning |-> "",
      scores |-> [contradictionScore |-> Undefined], keyEvidence |-> <<>>,
      detectorConfidence |-> 0 ]

FormatForFrontend(store, i) ==
    [ id |-> i,
      verdict |-> store[i].verdict,
      confidence |-> store[i].confidence,
      reasoning |-> store[i].reasoning,
      scores |-> store[i].mlScores,
      keyEvidence |-> store[i].keyEvidence,
      detectorConfidence |-> store[i].detectorConfidence ]

(***************************************************************************)
(* A request handler: runSynthesis and the synthesizePair it awaits.  pc   *)
(* names the await the handler is suspended at.  Locals that are never     *)
(* read again are reset, which changes no behaviour.                       *)
(***************************************************************************)
NoOutcome == [kind |-> "none", error |-> "", cached |-> FALSE, content |-> NoContent]

ResultOutcome(content, cached) ==
    [kind |-> "result", error |-> "", cached |-> cached, content |-> content]

ErrorOutcome(error) ==
    [kind |-> "error", error |-> error, cached |-> FALSE, content |-> NoContent]

NoMlData == [evidence_judgment |-> "none", contradiction_analysis |-> "none"]

IdleCall ==
    [ pc |-> "idle", token |-> <<>>, support |-> 0, oppose |-> 0,
      evidence |-> 0, ej |-> StageNull, mlData |-> NoMlData,
      synthesis |-> MlNull, grok |-> GrokFail, mlResult |-> MlNull,
      saved |-> 0, conflict |-> FALSE,
      failed |-> {}, timedOut |-> {}, succeeded |-> {}, log |-> <<>>,
      outcome |-> NoOutcome, prior |-> NoContent ]

Event(stage, what) == <<stage, what>>

\* the handler stops with a response sent
Respond(c, rec, outcome) ==
    /\ call' = [call EXCEPT ![c] =
                  [rec EXCEPT !.pc = "done", !.outcome = outcome,
                              !.ej = StageNull, !.mlData = NoMlData]]
    /\ firstResult' =
          IF outcome.kind = "result" /\ firstResult[rec.token] = NoContent
          THEN [firstResult EXCEPT ![rec.token] = outcome.content]
          ELSE firstResult

\* POST /run/:pairId arrives; the cache lookup; on a miss synthesizePair begins
\* with _findPairedResponses
RunSynthesis(c, token) ==
    /\ call[c].pc = "idle"
    /\ runs < MaxRuns
    /\ runs' = runs + 1
    /\ LET existing == FindOneResult(results, token)
           rec == [call[c] EXCEPT !.token = token, !.prior = firstResult[token]]
       IN  IF existing # 0
           THEN Respond(c, rec, ResultOutcome(FormatForFrontend(results, existing), TRUE))
           ELSE /\ call' = [call EXCEPT ![c] = [rec EXCEPT !.pc = "resolving"]]
                /\ UNCHANGED firstResult
    /\ UNCHANGED <<responses, linking, results, probe, pending, twin, proc, stats>>

\* _findPairedResponses settles; on a pair the evidence lookup is issued
AfterFindPairedResponses(c, errs) ==
    /\ call[c].pc = "resolving"
    /\ LET pair == FindPairedResponses(responses, call[c].token, errs)
       IN  IF pair.found
           THEN /\ call' = [call EXCEPT ![c].pc = "evidence",
                                        ![c].support = pair.support,
                                        ![c].oppose = pair.oppose]
                /\ UNCHANGED firstResult
           ELSE Respond(c, call[c], ErrorOutcome("Could not find synthesis pair"))
    /\ UNCHANGED <<responses, linking, results, runs, probe, pending, twin, proc, stats>>

\* _getEvidenceForSession settles with n chunks ([] on a miss or an error);
\* mlData is prepared and the Quality worker is spawned
\* (AfterGetEvidenceOrThrow: an empty evidence list ends the request)
AfterGetEvidenceOrThrow(c, n) ==
    /\ call[c].pc = "evidence"
    /\ IF n = 0
       THEN Respond(c, call[c], ErrorOutcome("No evidence found"))
       ELSE /\ call' = [call EXCEPT ![c].pc = "quality",
                                    ![c].evidence = n,
                                    ![c].log = Append(@, Event("quality", "start"))]
            /\ UNCHANGED firstResult
    /\ UNCHANGED <<responses, linking, results, runs, probe, pending, twin, proc, stats>>

AfterGetEvidence(c, n) ==
    /\ call[c].pc = "evidence"
    /\ call' = [call EXCEPT ![c].pc = "quality",
                            ![c].evidence = n,
                            ![c].log = Append(@, Event("quality", "start"))]
    /\ UNCHANGED <<responses, linking, results, runs, firstResult, probe, pending, twin, proc, stats>>

\* the worker exited cleanly and printed an object reporting success, with the
\* payload its stage reads
WorkerSucceeded(stage, run) ==
    /\ ~WorkerFailed(run)
    /\ ~run.body.isNull
    /\ run.body.success
    /\ stage \in {"quality", "contradiction"} => run.body.payload = "real"

\* the ghost record of which workers failed, timed out, succeeded
NoteRun(rec, stage, run) ==
    [rec EXCEPT !.failed = IF WorkerFailed(run) THEN @ \cup {stage} ELSE @,
                !.succeeded = IF WorkerSucceeded(stage, run) THEN @ \cup {stage} ELSE @,
                !.timedOut = IF run.kind = "timeout" THEN @ \cup {stage} ELSE @,
                !.log = Append(@, Event(stage, "resolve"))]

\* _runEvidenceJudge settles; the Contradiction worker is spawned
\* (EvidenceJudgeNotAwaited: the promise is not awaited, the worker still runs)
EvidenceJudgeNotAwaited(c, run) ==
    /\ call[c].pc = "quality"
    /\ call' = [call EXCEPT ![c] =
                  [call[c] EXCEPT
                      !.pc = "contradiction",
                      !.ej = StageFail(""),
                      !.log = Append(@, Event("contradiction", "start"))]]
    /\ UNCHANGED <<responses, linking, results, runs, firstResult, probe, pending, twin, proc, stats>>

EvidenceJudgeResolves(c, run) ==
    /\ call[c].pc = "quality"
    /\ call' = [call EXCEPT ![c] =
                  [NoteRun(call[c], "quality", run) EXCEPT
                      !.pc = "contradiction",
                      !.ej = RunEvidenceJudge(run),
                      !.log = Append(@, Event("contradiction", "start"))]]
    /\ UNCHANGED <<responses, linking, results, runs, firstResult, probe, pending, twin, proc, stats>>

\* _runContradictionDetector settles; both analyses are injected into mlData
\* and the Synthesis worker is spawned
InjectAndSynthesize(rec, ca) ==
    [rec EXCEPT !.pc = "synthesis",
                !.ej = StageNull,
                !.mlData = [evidence_judgment |-> InjectJudgment(rec.ej),
                            contradiction_analysis |-> InjectContradiction(ca)],
                !.log = Append(@, Event("synthesis", "start"))]

ContradictionDetectorResolves(c, run) ==
    /\ call[c].pc = "contradiction"
    /\ LET ca == RunContradictionDetector(run)
           rec == NoteRun(call[c], "contradiction", run)
       IN  IF InjectThrows(rec.ej, ca)
           THEN Respond(c, rec, ErrorOutcome("TypeError"))
           ELSE /\ call' = [call EXCEPT ![c] = InjectAndSynthesize(rec, ca)]
                /\ UNCHANGED firstResult
    /\ UNCHANGED <<responses, linking, results, runs, probe, pending, twin, proc, stats>>

\* _runMLSynthesisPipeline settles; mlResult.success is read and the
\* Explanation worker is spawned
MLSynthesisResolves(c, run) ==
    /\ call[c].pc = "synthesis"
    /\ LET ml == RunMLSynthesisPipeline(run)
           rec == NoteRun(call[c], "synthesis", run)
       IN  IF ml.isNull
           THEN Respond(c, rec, ErrorOutcome("TypeError"))
           ELSE /\ call' = [call EXCEPT ![c] =
                              [rec EXCEPT !.pc = "explanation",
                                          !.synthesis = ml,
                                          !.mlResult = ml,
                                          !.log = Append(@, Event("explanation", "start"))]]
                /\ UNCHANGED firstResult
    /\ UNCHANGED <<responses, linking, results, runs, probe, pending, twin, proc, stats>>

\* _generateGrokExplanation settles; the overlay; the document is built and
\* its save() issued
GrokExplanationResolves(c, run) ==
    /\ call[c].pc = "explanation"
    /\ call' = [call EXCEPT ![c] =
                  [NoteRun(call[c], "explanation", run) EXCEPT
                      !.pc = "saving",
                      !.grok = GenerateGrokExplanation(run),
                      !.mlResult = OverlayExplanation(@, GenerateGrokExplanation(run))]]
    /\ UNCHANGED <<responses, linking, results, runs, firstResult, probe, pending, twin, proc, stats>>

\* save() settles: a validation error, a duplicate key error or a failed write
\* throws; else the document is inserted and the status update issued
\* (SaveSettlesUpdateFirst: the status update is applied before save() settles)
SaveSettlesUpdateFirst(c, writeFails) ==
    /\ call[c].pc = "saving"
    /\ responses' = [i \in 1..Len(responses) |->
                        IF i \in {call[c].support, call[c].oppose}
                        THEN [responses[i] EXCEPT !.synthesisStatus = "synthesized"]
                        ELSE responses[i]]
    /\ LET rec == call[c]
           doc == BuildDoc(rec.token, rec.support, rec.oppose, rec.mlResult)
       IN  IF ~ValidDoc(doc)
           THEN /\ Respond(c, rec, ErrorOutcome("ValidationError"))
                /\ UNCHANGED results
           ELSE IF writeFails
           THEN /\ Respond(c, rec, ErrorOutcome("write failed"))
                /\ UNCHANGED results
           ELSE IF DuplicateKey(results, rec.token)
           THEN /\ Respond(c, [rec EXCEPT !.conflict = TRUE],
                           ErrorOutcome("E11000 duplicate key"))
                /\ UNCHANGED results
           ELSE /\ results' = Append(results, doc)
                /\ call' = [call EXCEPT ![c].pc = "updating",
                                        ![c].saved = Len(results) + 1]
                /\ UNCHANGED firstResult
    /\ UNCHANGED <<linking, runs, probe, pending, twin, proc, stats>>

SaveSettles(c, writeFails) ==
    /\ call[c].pc = "saving"
    /\ LET rec == call[c]
           doc == BuildDoc(rec.token, rec.support, rec.oppose, rec.mlResult)
       IN  IF ~ValidDoc(doc)
           THEN /\ Respond(c, rec, ErrorOutcome("ValidationError"))
                /\ UNCHANGED results
           ELSE IF writeFails
           THEN /\ Respond(c, rec, ErrorOutcome("write failed"))
                /\ UNCHANGED results
           ELSE IF DuplicateKey(results, rec.token)
           THEN /\ Respond(c, [rec EXCEPT !.conflict = TRUE],
                           ErrorOutcome("E11000 duplicate key"))
                /\ UNCHANGED results
           ELSE /\ results' = Append(results, doc)
                /\ call' = [call EXCEPT ![c].pc = "updating",
                                        ![c].saved = Len(results) + 1]
                /\ UNCHANGED firstResult
    /\ UNCHANGED <<responses, linking, runs, probe, pending, twin, proc, stats>>

\* AgentResponse.updateMany settles; the result is returned
MarkPair(resp, ids) ==
    [i \in 1..Len(resp) |->
        IF i \in ids THEN [resp[i] EXCEPT !.synthesisStatus = "synthesized"]
        ELSE resp[i]]

UpdateSettles(c, updateFails) ==
    /\ call[c].pc = "updating"
    /\ IF updateFails
       THEN /\ Respond(c, call[c], ErrorOutcome("update failed"))
            /\ UNCHANGED responses
       ELSE /\ responses' = MarkPair(responses, {call[c].support, call[c].oppose})
            /\ Respond(c, call[c],
                       ResultOutcome(FormatForFrontend(results, call[c].saved), FALSE))
    /\ UNCHANGED <<linking, results, runs, probe, pending, twin, proc, stats>>

\* the response has been sent; the handler is free for the next request
Finish(c) ==
    /\ call[c].pc = "done"
    /\ call' = [call EXCEPT ![c] = IdleCall]
    /\ UNCHANGED <<responses, linking, results, runs, firstResult, probe, pending, twin, proc, stats>>

(***************************************************************************)
(* The AgentResponse collection: responseService and the response routes.  *)
(***************************************************************************)
\* patched is history: has PATCH /:responseId/synthesized marked the response
NewResponse(sid, type) ==
    [ sessionId |-> sid, agentType |-> type,
      synthesisPairId |-> 0, synthesisStatus |-> "pending", patched |-> FALSE ]

NoLinking == [support |-> 0, oppose |-> 0, writes |-> {}]

Sessions == 1..MaxSession

\* saveGeminiResponse on its own (GET /support, GET /oppose)
SaveGeminiResponse(sid, type) ==
    /\ Len(responses) < MaxResp
    /\ responses' = Append(responses, NewResponse(sid, type))
    /\ UNCHANGED <<linking, results, call, runs, firstResult, probe, pending, twin, proc, stats>>

\* saveBothGeminiResponses: the support response is saved
SaveBothSupport(sid) ==
    /\ linking = NoLinking
    /\ Len(responses) + 2 <= MaxResp
    /\ responses' = Append(responses, NewResponse(sid, "support"))
    /\ linking' = [support |-> Len(responses) + 1, oppose |-> 0, writes |-> {}]
    /\ UNCHANGED <<results, call, runs, firstResult, probe, pending, twin, proc, stats>>

\* saveBothGeminiResponses: the oppose response is saved, and the two link
\* writes are issued together (Promise.all)
SaveBothOppose ==
    /\ linking.support # 0 /\ linking.oppose = 0
    /\ Len(responses) < MaxResp
    /\ responses' =
          Append(responses, NewResponse(responses[linking.support].sessionId, "oppose"))
    /\ linking' = [linking EXCEPT !.oppose = Len(responses) + 1,
                                  !.writes = {linking.support, Len(responses) + 1}]
    /\ UNCHANGED <<results, call, runs, firstResult, probe, pending, twin, proc, stats>>

\* one of the two link writes is applied: synthesisPairId = the other's _id
LinkTarget(i) == IF i = linking.support THEN linking.oppose ELSE linking.support

LinkSave(i) ==
    /\ i \in linking.writes
    /\ responses' = [responses EXCEPT ![i].synthesisPairId = LinkTarget(i)]
    /\ linking' = IF linking.writes = {i} THEN NoLinking
                  ELSE [linking EXCEPT !.writes = @ \ {i}]
    /\ UNCHANGED <<results, call, runs, firstResult, probe, pending, twin, proc, stats>>

\* PATCH /:responseId/synthesized: markAsSynthesized(responseId)
MarkAsSynthesized(i) ==
    /\ i \in 1..Len(responses)
    /\ responses' = [responses EXCEPT ![i].synthesisStatus = "synthesized",
                                      ![i].patched = TRUE]
    /\ UNCHANGED <<linking, results, call, runs, firstResult, probe, pending, twin, proc, stats>>

\* findPairsForSynthesis: the aggregation over the AgentResponse collection.
\* $match: responses with a synthesisPairId that are pending
PendingWithKey(resp) ==
    {i \in 1..Len(resp) :
        resp[i].synthesisPairId # 0 /\ resp[i].synthesisStatus = "pending"}

\* $group by synthesisPairId: the members of a key's group
GroupOf(resp, key) == {i \in PendingWithKey(resp) : resp[i].synthesisPairId = key}

\* $match on the group size
GroupKeysAnySize(resp) == {resp[i].synthesisPairId : i \in PendingWithKey(resp)}

GroupKeys(resp) ==
    {key \in {resp[i].synthesisPairId : i \in PendingWithKey(resp)} :
        Cardinality(GroupOf(resp, key)) = PairSize}

\* createdAt of a group ($max): ids are in creation order
NewestOf(S) == CHOOSE i \in S : \A j \in S : j <= i

\* $sort by createdAt descending
RECURSIVE SortNewestFirst(_, _)
SortNewestFirst(resp, keys) ==
    IF keys = {} THEN <<>>
    ELSE LET first == CHOOSE k \in keys :
                          \A other \in keys :
                              NewestOf(GroupOf(resp, other)) <= NewestOf(GroupOf(resp, k))
         IN  <<first>> \o SortNewestFirst(resp, keys \ {first})

\* $limit, and the pairId of each group
FindPairsForSynthesis(resp, limit) ==
    LET sorted == SortNewestFirst(resp, GroupKeys(resp))
    IN  SubSeq(sorted, 1, IF Len(sorted) < limit THEN Len(sorted) ELSE limit)

\* at is the collection the answer was computed from
NoPending == [asked |-> FALSE, at |-> <<>>, pairs |-> <<>>]

\* _findPairedResponses observed on its own
\* (prev, grown and len are history, kept by ResolveAgain: the pair the
\* resolution before this one found, if it was of the same token; whether
\* responses were created between the two; the number of responses now)
NoProbe ==
    [ token |-> <<>>, errs |-> {}, attempts |-> <<>>, pair |-> NoPair,
      prev |-> NoPair, grown |-> FALSE, len |-> 0 ]

Resolve(token, errs) ==
    /\ probe' = [ NoProbe EXCEPT
                    !.token = token, !.errs = errs,
                    !.attempts = AttemptsFrom(1, responses, token, errs),
                    !.pair = FindPairedResponses(responses, token, errs) ]
    /\ UNCHANGED <<responses, linking, results, call, runs, firstResult, pending, twin, proc, stats>>

\* _findPairedResponses observed together with the resolution before it
ResolveAgain(token, errs) ==
    /\ probe' = [ NoProbe EXCEPT
                    !.token = token,
                    !.pair = FindPairedResponses(responses, token, errs),
                    !.prev = IF probe.token = token THEN probe.pair ELSE NoPair,
                    !.grown = probe.token = token /\ probe.len < Len(responses),
                    !.len = Len(responses) ]
    /\ UNCHANGED <<responses, linking, results, call, runs, firstResult, pending, twin, proc, stats>>

\* GET /synthesis/pairs?limit=: findPairsForSynthesis.  limit is the query's
\* number, Undefined when absent or not a number
FindPairs(limit) ==
    /\ pending' = [ asked |-> TRUE, at |-> responses,
                    pairs |-> FindPairsForSynthesis(responses, OrNum(limit, DefaultPairLimit)) ]
    /\ UNCHANGED <<responses, linking, results, call, runs, firstResult, probe, twin, proc, stats>>

(***************************************************************************)
(* Specifications.                                                         *)
(*   Spec      two request handlers running runSynthesis concurrently and  *)
(*             repeatedly over one stored pair                             *)
(*   SpecPipe  one runSynthesis request over every worker run              *)
(*   SpecStore the response collection as the response service builds it,  *)
(*             with the resolver applied to every token                    *)
(*   SpecStable the same collection with its status changes, and the       *)
(*             resolver applied to one token again and again               *)
(*   SpecWorker two invocations of one stage's worker that differ only in  *)
(*             what the worker writes to standard error                    *)
(*   SpecTimer one invocation of a stage's worker, its events and timer    *)
(*   SpecStats one request handler next to getSynthesisStats               *)
(*   SpecPairs the response collection with its status changes, and        *)
(*             findPairsForSynthesis applied to it                         *)
(***************************************************************************)
\* the pair saveBothGeminiResponses leaves behind: 1 supports, 2 opposes
StoredPair ==
    << [NewResponse(1, "support") EXCEPT !.synthesisPairId = 2],
       [NewResponse(1, "oppose") EXCEPT !.synthesisPairId = 1] >>

(***************************************************************************)
(* The worker client of a stage, event by event.  A client is the closure  *)
(* of one invocation: output (what JSON.parse makes of the accumulated     *)
(* standard output), errorOutput (the accumulated standard error, kept by  *)
(* _runMLSynthesisPipeline only), console (what was logged), and the value *)
(* the promise resolved with.  stderr is history: the chunks received.     *)
(***************************************************************************)
StderrMessages ==
    { "UserWarning: torch", "resource_tracker: leaked semaphore",
      "Traceback (most recent call last)" }

IncludesUserWarning(msg) == msg = "UserWarning: torch"

IncludesResourceTracker(msg) == msg = "resource_tracker: leaked semaphore"

NewClient(run) ==
    [ output |-> [parses |-> run.parses, body |-> run.body],
      errorOutput |-> <<>>, console |-> <<>>, stderr |-> <<>>,
      settled |-> FALSE ]

\* pythonProcess.stderr.on('data', ...) of the four wrappers
StderrHandler(stage, st, msg) ==
    CASE stage = "quality" ->
            [st EXCEPT !.console = IF ~IncludesUserWarning(msg)
                                   THEN Append(@, msg) ELSE @]
      [] stage = "contradiction" ->
            [st EXCEPT !.console = IF ~IncludesUserWarning(msg)
                                        /\ ~IncludesResourceTracker(msg)
                                   THEN Append(@, msg) ELSE @]
      [] stage = "synthesis" ->
            [st EXCEPT !.console = Append(@, msg),
                       !.errorOutput = Append(@, msg)]
      [] stage = "explanation" ->
            [st EXCEPT !.console = Append(@, msg)]

\* the value the promise resolves with when the event of this kind arrives:
\* the close, error and timer handlers and the catch around stdin.write
\* (SettleClientFromStderr: a Synthesis worker that exits non-zero without
\* parseable output is reported with the last line it wrote to standard error)
SettleClientFromStderr(stage, kind, st) ==
    LET run == WorkerRun(kind, st.output.parses, st.output.body)
    IN  CASE stage = "quality" -> RunEvidenceJudge(run)
          [] stage = "contradiction" -> RunContradictionDetector(run)
          [] stage = "synthesis" ->
                IF kind = "exitN" /\ ~st.output.parses /\ st.errorOutput # <<>>
                THEN GetFallbackResult(st.errorOutput[Len(st.errorOutput)])
                ELSE RunMLSynthesisPipeline(run)
          [] stage = "explanation" -> GenerateGrokExplanation(run)

SettleClient(stage, kind, st) ==
    LET run == WorkerRun(kind, st.output.parses, st.output.body)
    IN  CASE stage = "quality" -> RunEvidenceJudge(run)
          [] stage = "contradiction" -> RunContradictionDetector(run)
          [] stage = "synthesis" -> RunMLSynthesisPipeline(run)
          [] stage = "explanation" -> GenerateGrokExplanation(run)

\* what synthesizePair stores of verdict, confidence and scores when one
\* stage resolved with value and the other three with the values below
BaseStage == StageValue(FALSE, TRUE, "real", "")

BaseMl ==
    MlObject(TRUE, "support", Num(89), "synthesis reasoning", Num(32),
             <<"chunk1">>, "")

NoPersisted ==
    [ stored |-> FALSE, verdict |-> "", confidence |-> 0,
      scores |-> [contradictionScore |-> Undefined] ]

PersistedWith(stage, value) ==
    LET ej == IF stage = "quality" THEN value ELSE BaseStage
        ca == IF stage = "contradiction" THEN value ELSE BaseStage
        ml == IF stage = "synthesis" THEN value ELSE BaseMl
        grok == IF stage = "explanation" THEN value ELSE GrokFail
    IN  IF InjectThrows(ej, ca) \/ ml.isNull THEN NoPersisted
        ELSE LET doc == BuildDoc(<<1, 2>>, 1, 2, OverlayExplanation(ml, grok))
             IN  IF ValidDoc(doc)
                 THEN [ stored |-> TRUE, verdict |-> doc.verdict,
                        confidence |-> doc.confidence, scores |-> doc.mlScores ]
                 ELSE NoPersisted

(***************************************************************************)
(* One invocation of a stage's worker with its events and its timer.       *)
(* state is the child process ("running", "exited", or "nospawn" when      *)
(* spawn failed), killed is pythonProcess.killed, elapsed the time since   *)
(* the call in ms, events the handlers that have run.  log is history:     *)
(* every call of resolve, in order; atTimer what the timer found.          *)
(***************************************************************************)
\* the delay of the stage's setTimeout
Budget(stage) ==
    CASE stage = "quality" -> 60000
      [] stage = "contradiction" -> 90000
      [] stage = "synthesis" -> 60000
      [] stage = "explanation" -> 15000

NoProc ==
    [ stage |-> "", state |-> "none", killed |-> FALSE, elapsed |-> 0,
      events |-> {}, client |-> NewClient(WorkerRun("", FALSE, StageNull)),
      resolved |-> FALSE, value |-> StageNull, log |-> <<>>,
      atTimer |-> [state |-> "none", resolved |-> FALSE, elapsed |-> 0] ]

\* resolve(v) of the promise: only the first call settles it
\* (ResolveOverwrites: the last call wins)
ResolveOverwrites(p, by, v) ==
    [p EXCEPT !.resolved = TRUE,
              !.value = v,
              !.log = Append(@, [by |-> by, value |-> v])]

ResolveOnce(p, by, v) ==
    [p EXCEPT !.resolved = TRUE,
              !.value = IF p.resolved THEN @ ELSE v,
              !.log = Append(@, [by |-> by, value |-> v])]

\* the promise executor: spawn, the handlers registered, stdin.write in its
\* try/catch, the timer armed
SpawnWorker(stage, run, spawns, writeThrows) ==
    /\ proc.state = "none"
    /\ LET p == [NoProc EXCEPT !.stage = stage,
                               !.state = IF spawns THEN "running" ELSE "nospawn",
                               !.client = NewClient(run)]
       IN  proc' = IF writeThrows
                   THEN ResolveOnce(p, "write", SettleClient(stage, "write", p.client))
                   ELSE p
    /\ UNCHANGED <<responses, linking, results, call, runs, firstResult, probe, pending, twin, stats>>

\* time passes; the timer fires no later than its delay
Tick ==
    /\ proc.state # "none"
    /\ proc.elapsed < 90000
    /\ "timer" \in proc.events \/ proc.elapsed < Budget(proc.stage)
    /\ proc' = [proc EXCEPT !.elapsed = @ + 15000]
    /\ UNCHANGED <<responses, linking, results, call, runs, firstResult, probe, pending, twin, stats>>

\* pythonProcess.on('error'): spawn failed
ErrorEvent ==
    /\ proc.state = "nospawn"
    /\ "error" \notin proc.events
    /\ proc' = [ResolveOnce(proc, "error",
                            SettleClient(proc.stage, "spawn", proc.client))
                  EXCEPT !.events = @ \cup {"error"}]
    /\ UNCHANGED <<responses, linking, results, call, runs, firstResult, probe, pending, twin, stats>>

\* pythonProcess.on('close'): the worker exited by itself with code 0 or 1, or
\* was terminated by the signal (code null)
CloseEvent(zero) ==
    /\ proc.state = "running"
    /\ proc.killed => ~zero
    /\ proc' = [ResolveOnce(proc, "close",
                            SettleClient(proc.stage,
                                         IF zero THEN "exit0" ELSE "exitN",
                                         proc.client))
                  EXCEPT !.state = "exited", !.events = @ \cup {"close"}]
    /\ UNCHANGED <<responses, linking, results, call, runs, firstResult, probe, pending, twin, stats>>

\* the setTimeout callback: the Quality and Contradiction wrappers test
\* pythonProcess.killed first; kill() sets killed when the signal was sent
TimerFires ==
    /\ proc.state # "none"
    /\ "timer" \notin proc.events
    /\ proc.elapsed = Budget(proc.stage)
    /\ LET p == [proc EXCEPT !.events = @ \cup {"timer"},
                             !.atTimer = [state |-> proc.state,
                                          resolved |-> proc.resolved,
                                          elapsed |-> proc.elapsed]]
       IN  proc' = IF proc.stage \in {"quality", "contradiction"} /\ proc.killed
                   THEN p
                   ELSE [ResolveOnce(p, "timer",
                                     SettleClient(proc.stage, "timeout", proc.client))
                           EXCEPT !.killed = proc.state = "running"]
    /\ UNCHANGED <<responses, linking, results, call, runs, firstResult, probe, pending, twin, stats>>

(***************************************************************************)
(* getSynthesisStats: three queries, each awaited before the next is       *)
(* issued.  pc names the query to come.  Every result of a behaviour was   *)
(* created within the last 24 hours.                                       *)
(***************************************************************************)
NoStats ==
    [ pc |-> "aggregate", byVerdict |-> [v \in Verdicts |-> 0],
      total |-> 0, recentCount |-> 0 ]

\* SynthesisResult.aggregate([$group by verdict]) settles; a rejected query
\* ends in the catch
StatsAggregate(fails) ==
    /\ stats.pc = "aggregate"
    /\ stats' = IF fails THEN [NoStats EXCEPT !.pc = "done"]
                ELSE [stats EXCEPT
                        !.pc = "total",
                        !.byVerdict =
                            [v \in Verdicts |->
                                Cardinality({i \in 1..Len(results) :
                                                results[i].verdict = v})]]
    /\ UNCHANGED <<responses, linking, results, call, runs, firstResult, probe, pending, twin, proc>>

\* SynthesisResult.countDocuments() settles
StatsTotal(fails) ==
    /\ stats.pc = "total"
    /\ stats' = IF fails THEN [NoStats EXCEPT !.pc = "done"]
                ELSE [stats EXCEPT !.pc = "recent", !.total = Len(results)]
    /\ UNCHANGED <<responses, linking, results, call, runs, firstResult, probe, pending, twin, proc>>

\* SynthesisResult.countDocuments({createdAt >= now - 24h}) settles; the
\* statistics are returned
StatsRecent(fails) ==
    /\ stats.pc = "recent"
    /\ stats' = IF fails THEN [NoStats EXCEPT !.pc = "done"]
                ELSE [stats EXCEPT !.pc = "done", !.recentCount = Len(results)]
    /\ UNCHANGED <<responses, linking, results, call, runs, firstResult, probe, pending, twin, proc>>

Twins == {"a", "b"}

NoTwin ==
    [ spawned |-> FALSE, stage |-> "", kind |-> "",
      client |-> [t \in Twins |-> NewClient(WorkerRun("", FALSE, StageNull))],
      value |-> [t \in Twins |-> StageNull],
      persisted |-> [t \in Twins |-> NoPersisted] ]

\* spawn('python3', [script]) twice for one stage; both workers will exit the
\* same way with the same standard output
SpawnTwice(stage, run) ==
    /\ ~twin.spawned
    /\ twin' = [ NoTwin EXCEPT !.spawned = TRUE, !.stage = stage, !.kind = run.kind,
                               !.client = [t \in Twins |-> NewClient(run)] ]
    /\ UNCHANGED <<responses, linking, results, call, runs, firstResult, probe, pending, proc, stats>>

\* a chunk arrives on the standard error of one of the two workers
StderrData(t, msg) ==
    /\ twin.spawned
    /\ ~twin.client[t].settled
    /\ Len(twin.client[t].stderr) < MaxChunks
    /\ twin' = [twin EXCEPT !.client[t] =
                  [StderrHandler(twin.stage, @, msg) EXCEPT
                      !.stderr = Append(@, msg)]]
    /\ UNCHANGED <<responses, linking, results, call, runs, firstResult, probe, pending, proc, stats>>

\* the event that settles one of the two invocations arrives
ClientSettles(t) ==
    /\ twin.spawned
    /\ ~twin.client[t].settled
    /\ LET value == SettleClient(twin.stage, twin.kind, twin.client[t])
       IN  twin' = [twin EXCEPT !.client[t].settled = TRUE,
                                !.value[t] = value,
                                !.persisted[t] = PersistedWith(twin.stage, value)]
    /\ UNCHANGED <<responses, linking, results, call, runs, firstResult, probe, pending, proc, stats>>

\* tokens requested: the stored pair in split form (both orders) and single-id
\* form (both members), a legacy token, and a split token of unknown ids
RunTokens == {<<1, 2>>, <<2, 1>>, <<1>>, <<2>>, <<PairWord, 7>>, <<3, 4>>}

InitCalls ==
    /\ linking = NoLinking
    /\ results = <<>>
    /\ call = [c \in Calls |-> IdleCall]
    /\ runs = 0
    /\ firstResult = [t \in RunTokens |-> NoContent]
    /\ probe = NoProbe
    /\ pending = NoPending
    /\ twin = NoTwin
    /\ proc = NoProc
    /\ stats = NoStats

Init ==
    /\ responses = StoredPair
    /\ InitCalls

InitStore ==
    /\ responses = <<>>
    /\ InitCalls

\* worker runs
StageRuns == RunsOf(StageBodies, StageNull)

SynthesisBodies ==
    { MlObject(TRUE, v, conf, "synthesis reasoning", Num(32), <<"chunk1">>, "") :
        v \in Verdicts \cup {"bogus", ""},
        conf \in {Undefined, Num(0), Num(89), Num(100), Num(170)} }
      \cup { MlObject(TRUE, "support", Num(89), "synthesis reasoning",
                      Num(FallbackContradictionScore), <<"chunk1">>, ""),
             MlObject(FALSE, "", Undefined, "", Undefined, <<>>, "worker error"),
             MlNull }

SynthesisRuns == RunsOf(SynthesisBodies, MlNull)

GrokRuns == RunsOf(GrokBodies, GrokFail)

\* the runs of the concurrent specification: clean runs, and a Synthesis worker
\* that times out
SomeStageRuns ==
    { WorkerRun("exit0", TRUE, StageValue(FALSE, TRUE, "real", "")) }

SomeSynthesisRuns ==
    { WorkerRun("exit0", TRUE,
          MlObject(TRUE, "support", Num(89), "synthesis reasoning", Num(32),
                   <<"chunk1">>, "")),
      WorkerRun("timeout", FALSE, MlNull) }

SomeGrokRuns ==
    { WorkerRun("exit0", TRUE, GrokValue(FALSE, TRUE, "grok explanation")) }

\* chunks the evidence lookup yields: none (a miss or an error) or three
EvidenceCounts == {0, 3}

\* tokens requested concurrently: the stored pair in split and in single-id
\* form, and a split token of unknown ids
RaceTokens == {<<1, 2>>, <<2>>, <<3, 4>>}

\* lookups that throw during one resolution
LookupFailures == {{}, {"split"}, {"legacy"}, {"xref"}, {"single"}, Strategies}

NextCall ==
    \E c \in Calls :
        \/ \E token \in RaceTokens : RunSynthesis(c, token)
        \/ \E errs \in LookupFailures : AfterFindPairedResponses(c, errs)
        \/ AfterGetEvidence(c, 3)
        \/ \E run \in SomeStageRuns : EvidenceJudgeResolves(c, run)
        \/ \E run \in SomeStageRuns : ContradictionDetectorResolves(c, run)
        \/ \E run \in SomeSynthesisRuns : MLSynthesisResolves(c, run)
        \/ \E run \in SomeGrokRuns : GrokExplanationResolves(c, run)
        \/ \E writeFails \in BOOLEAN : SaveSettles(c, writeFails)
        \/ \E updateFails \in BOOLEAN : UpdateSettles(c, updateFails)
        \/ Finish(c)

Next ==
    \/ NextCall
    \/ \E i \in 1..Len(responses) : MarkAsSynthesized(i)

Spec == Init /\ [][Next]_vars

NextPipe ==
    \/ \E token \in RunTokens : RunSynthesis(1, token)
    \/ \E errs \in LookupFailures : AfterFindPairedResponses(1, errs)
    \/ \E n \in EvidenceCounts : AfterGetEvidence(1, n)
    \/ \E run \in StageRuns : EvidenceJudgeResolves(1, run)
    \/ \E run \in StageRuns : ContradictionDetectorResolves(1, run)
    \/ \E run \in SynthesisRuns : MLSynthesisResolves(1, run)
    \/ \E run \in GrokRuns : GrokExplanationResolves(1, run)
    \/ \E writeFails \in BOOLEAN : SaveSettles(1, writeFails)
    \/ \E updateFails \in BOOLEAN : UpdateSettles(1, updateFails)

SpecPipe == Init /\ [][NextPipe]_vars

\* limits asked of findPairsForSynthesis: none given, and one
PairLimits == {Undefined, Num(1)}

NextStore ==
    \/ \E sid \in Sessions, type \in AgentTypes : SaveGeminiResponse(sid, type)
    \/ \E sid \in Sessions : SaveBothSupport(sid)
    \/ SaveBothOppose
    \/ \E i \in 1..MaxResp : LinkSave(i)
    \/ \E token \in Tokens, errs \in LookupFailures : Resolve(token, errs)

SpecStore == InitStore /\ [][NextStore]_vars

\* the runs of the two side-by-side invocations
TwinSynthesisBodies ==
    { BaseMl,
      MlObject(FALSE, "", Undefined, "", Undefined, <<>>, "worker error"),
      MlNull }

TwinRuns(stage) ==
    CASE stage = "synthesis" -> RunsOf(TwinSynthesisBodies, MlNull)
      [] stage = "explanation" -> GrokRuns
      [] OTHER -> StageRuns

NextWorker ==
    \/ \E stage \in Stages : \E run \in TwinRuns(stage) : SpawnTwice(stage, run)
    \/ \E t \in Twins, msg \in StderrMessages : StderrData(t, msg)
    \/ \E t \in Twins : ClientSettles(t)

NextTimer ==
    \/ \E stage \in Stages : \E run \in TwinRuns(stage) :
          \E spawns, writeThrows \in BOOLEAN :
              /\ run.kind = "exit0"
              /\ SpawnWorker(stage, run, spawns, writeThrows)
    \/ Tick
    \/ ErrorEvent
    \/ \E zero \in BOOLEAN : CloseEvent(zero)
    \/ TimerFires

SpecTimer == Init /\ [][NextTimer]_vars

\* one request handler at a time next to one computation of the statistics
NextStats ==
    \/ \E token \in RaceTokens : RunSynthesis(1, token)
    \/ \E errs \in {{}} : AfterFindPairedResponses(1, errs)
    \/ AfterGetEvidence(1, 3)
    \/ \E run \in SomeStageRuns : EvidenceJudgeResolves(1, run)
    \/ \E run \in SomeStageRuns : ContradictionDetectorResolves(1, run)
    \/ \E run \in SomeSynthesisRuns : MLSynthesisResolves(1, run)
    \/ \E run \in SomeGrokRuns : GrokExplanationResolves(1, run)
    \/ SaveSettles(1, FALSE)
    \/ UpdateSettles(1, FALSE)
    \/ Finish(1)
    \/ \E fails \in BOOLEAN : StatsAggregate(fails)
    \/ \E fails \in BOOLEAN : StatsTotal(fails)
    \/ \E fails \in BOOLEAN : StatsRecent(fails)

SpecStats == Init /\ [][NextStats]_vars

SpecWorker == Init /\ [][NextWorker]_vars

NextStable ==
    \/ \E sid \in Sessions, type \in AgentTypes : SaveGeminiResponse(sid, type)
    \/ \E sid \in Sessions : SaveBothSupport(sid)
    \/ SaveBothOppose
    \/ \E i \in 1..MaxResp : LinkSave(i)
    \/ \E i \in 1..Len(responses) : MarkAsSynthesized(i)
    \/ \E token \in RunTokens, errs \in LookupFailures : ResolveAgain(token, errs)

SpecStable == InitStore /\ [][NextStable]_vars

NextPairs ==
    \/ \E sid \in Sessions, type \in AgentTypes : SaveGeminiResponse(sid, type)
    \/ \E sid \in Sessions : SaveBothSupport(sid)
    \/ SaveBothOppose
    \/ \E i \in 1..MaxResp : LinkSave(i)
    \/ \E i \in 1..Len(responses) : MarkAsSynthesized(i)
    \/ \E limit \in PairLimits : FindPairs(limit)

SpecPairs == InitStore /\ [][NextPairs]_vars

(***************************************************************************)
(* Properties.                                                             *)
(***************************************************************************)
Done(c) == call[c].pc = "done"

\* the five fields of a result's content
SameContent(a, b) ==
    /\ a.verdict = b.verdict
    /\ a.confidence = b.confidence
    /\ a.reasoning = b.reasoning
    /\ a.scores = b.scores
    /\ a.keyEvidence = b.keyEvidence

Started(c, stage) == \E k \in 1..Len(call[c].log) : call[c].log[k] = Event(stage, "start")

\* the store refused or lost a write: not a failure of the pipeline's own steps
StoreErrors == {"write failed", "update failed"}

\* C1: a runSynthesis request that arrives after a request with the same token
\* has returned a result returns a result with the same verdict, confidence,
\* reasoning, scores and key evidence, and starts no worker.
C1_SecondCallIdempotent ==
    \A c \in Calls :
        (Done(c) /\ call[c].prior # NoContent) =>
            /\ call[c].outcome.kind = "result"
            /\ SameContent(call[c].outcome.content, call[c].prior)
            /\ call[c].log = <<>>

C1_Witness ==
    \E c \in Calls :
        /\ Done(c) /\ call[c].prior # NoContent
        /\ call[c].outcome.cached
        /\ call[c].prior.reasoning = "grok explanation"

\* C2: a request whose insert hits the unique index (another request with the
\* same token persisted first) returns the result the other request stored, and
\* not an error.
C2_LoserReturnsStoredResult ==
    \A c \in Calls :
        (Done(c) /\ call[c].conflict) =>
            /\ call[c].outcome.kind = "result"
            /\ FindOneResult(results, call[c].token) # 0
            /\ SameContent(call[c].outcome.content,
                           FormatForFrontend(results, FindOneResult(results, call[c].token)))

\* C3: the store never holds two SynthesisResult documents with the same pair
\* token.
C3_OneResultPerToken ==
    \A i, j \in 1..Len(results) :
        results[i].synthesisPairId = results[j].synthesisPairId => i = j

C3_Witness ==
    \E c \in Calls :
        /\ call[c].conflict
        /\ Len(results) = 2

\* C4: every stored SynthesisResult has a confidence within [0,1] and a verdict
\* of the enumerated set.
C4_StoredResultsValid ==
    \A i \in 1..Len(results) :
        /\ results[i].confidence >= ConfidenceMin
        /\ results[i].confidence <= ConfidenceMax
        /\ results[i].verdict \in Verdicts

C4_Witness ==
    /\ call[1].saved # 0
    /\ call[1].synthesis.final_verdict = ""
    /\ call[1].synthesis.confidence = Undefined
    /\ results[call[1].saved].verdict = "inconclusive"

\* C5: when all four workers of a request failed, and the store took its writes,
\* the request returns a result whose stored document is completed, with
\* verdict inconclusive, confidence 0.5 and the fallback reasoning naming the
\* failure.
C5_AllWorkersFail ==
    \A c \in Calls :
        (Done(c) /\ call[c].failed = Stages /\ call[c].outcome.error \notin StoreErrors) =>
            /\ call[c].outcome.kind = "result"
            /\ results[call[c].outcome.content.id].status = "completed"
            /\ call[c].outcome.content.verdict = "inconclusive"
            /\ call[c].outcome.content.confidence = DefaultConfidence
            /\ \E e \in SynthesisErrors :
                  call[c].outcome.content.reasoning = FallbackReasoningOf(e)

\* C6: when the Contradiction worker of a request timed out, and the store took
\* its writes, the request returns a completed result whose contradiction score
\* is the fallback 0.3, the injected analysis carried the fallback marker, and
\* the Synthesis worker was started.
C6_ContradictionTimeout ==
    \A c \in Calls :
        (Done(c) /\ "contradiction" \in call[c].timedOut
                 /\ call[c].outcome.error \notin StoreErrors) =>
            /\ call[c].outcome.kind = "result"
            /\ results[call[c].outcome.content.id].status = "completed"
            /\ \/ call[c].outcome.content.scores.contradictionScore
                      = Num(FallbackContradictionScore)
               \/ call[c].outcome.content.detectorConfidence = FallbackContradictionScore
            /\ Started(c, "synthesis")

\* C7: a request returns an error only when pair resolution failed or the write
\* of the SynthesisResult failed.
C7_ErrorsOnlyFromResolutionOrWrite ==
    \A c \in Calls :
        (Done(c) /\ call[c].outcome.kind = "error") =>
            call[c].outcome.error \in
                { "Could not find synthesis pair", "ValidationError",
                  "write failed", "E11000 duplicate key" }

\* the stage's invocation resolved before position k of the log
ResolvedBefore(log, stage, k) == \E i \in 1..(k - 1) : log[i] = Event(stage, "resolve")

\* C8: in every request the Synthesis worker is started only after the Quality
\* and the Contradiction invocation have both resolved, and the Explanation
\* worker only after the Synthesis invocation has resolved.
C8_StageOrder ==
    \A c \in Calls :
        \A k \in 1..Len(call[c].log) :
            /\ call[c].log[k] = Event("synthesis", "start") =>
                  /\ ResolvedBefore(call[c].log, "quality", k)
                  /\ ResolvedBefore(call[c].log, "contradiction", k)
            /\ call[c].log[k] = Event("explanation", "start") =>
                  ResolvedBefore(call[c].log, "synthesis", k)

C8_Witness ==
    \E c \in Calls :
        /\ Started(c, "explanation")
        /\ {"quality", "contradiction", "synthesis"} \subseteq call[c].failed

\* C9: the document a request stores differs from the one built from the
\* Synthesis stage's result in the reasoning text alone; the text is the
\* explanation's when the Explanation stage succeeded and the Synthesis stage's
\* otherwise.
C9_ExplanationOnlyReasoning ==
    \A c \in Calls :
        call[c].saved # 0 =>
            LET doc == results[call[c].saved]
                base == BuildDoc(call[c].token, call[c].support, call[c].oppose,
                                 call[c].synthesis)
                explained == ~call[c].grok.isNull /\ call[c].grok.success
            IN  /\ doc.verdict = base.verdict
                /\ doc.confidence = base.confidence
                /\ [doc EXCEPT !.reasoning = ""] = [base EXCEPT !.reasoning = ""]
                /\ explained =>
                      doc.reasoning = OrStr(call[c].grok.explanation, "No reasoning provided")
                /\ ~explained => doc.reasoning = base.reasoning

C9_Witness ==
    \E c \in Calls :
        /\ call[c].saved # 0
        /\ call[c].grok.success
        /\ results[call[c].saved].reasoning = "grok explanation"
        /\ results[call[c].saved].verdict = "mixed"
        /\ results[call[c].saved].confidence = ConfidenceMax

\* s and o are the two members of a pair as saveBothGeminiResponses links them
LinkedPair(s, o) ==
    /\ s \in 1..Len(responses) /\ o \in 1..Len(responses)
    /\ responses[s].agentType = "support" /\ responses[o].agentType = "oppose"
    /\ responses[s].synthesisPairId = o /\ responses[o].synthesisPairId = s

\* the token forms of the pair: split in either id order, the single id of
\* either member (the cross-reference form is the single id read by strategy 3)
FormsOf(s, o) == {<<s, o>>, <<o, s>>, <<s>>, <<o>>}

\* C10: every token form of a pair stored by saveBothGeminiResponses (split in
\* either id order, cross-reference, single id of either member) resolves to
\* the same support id and the same oppose id.
C10_SameIdsForAllForms ==
    \A s, o \in 1..Len(responses) :
        (LinkedPair(s, o) /\ probe.token \in FormsOf(s, o) /\ probe.pair.found) =>
            \A t \in FormsOf(s, o) :
                LET other == FindPairedResponses(responses, t, {})
                IN  other.found =>
                        /\ other.support = probe.pair.support
                        /\ other.oppose = probe.pair.oppose

\* position of a strategy in the fixed order
OrderOf(st) == CHOOSE k \in 1..Len(StrategyOrder) : StrategyOrder[k] = st

\* C11: a resolution ends without a pair only when every strategy applicable to
\* the token was attempted and none found a pair; a miss or a lookup error in
\* one strategy is followed by the next applicable strategy; the strategies are
\* attempted in the order split, legacy, cross-reference, single-id, each only
\* after all earlier attempts failed; the pair returned is the one found last.
C11_NotFoundOnlyAfterAllStrategies ==
    LET att == probe.attempts
        n == Len(att)
    IN  probe.token # <<>> =>
          /\ \A k \in 1..n : Applicable(att[k].strategy, probe.token)
          /\ \A j, k \in 1..n : j < k =>
                /\ OrderOf(att[j].strategy) < OrderOf(att[k].strategy)
                /\ att[j].outcome # "found"
          /\ probe.pair.found <=> (n > 0 /\ att[n].outcome = "found")
          /\ probe.pair.found => att[n].pair = probe.pair
          /\ ~probe.pair.found =>
                {att[k].strategy : k \in 1..n}
                    = {st \in Strategies : Applicable(st, probe.token)}

C11_Witness ==
    /\ probe.token = <<1>>
    /\ probe.errs = {"xref"}
    /\ Len(probe.attempts) = 2
    /\ probe.attempts[1].outcome = "error"
    /\ probe.pair = Pair(1, 2)

\* the token is of split form and names no stored response
SplitOfUnknownIds(token) ==
    /\ Len(token) = 2 /\ ~StartsWithPair(token)
    /\ FindById(responses, token[1]) = 0
    /\ FindById(responses, token[2]) = 0

\* C12: a request whose split-form token names two ids that do not exist (and
\* that no other strategy resolves) ends with the pair-not-found error, has
\* started no worker, and leaves no SynthesisResult for the token and every
\* response's synthesisStatus as it was.
C12_UnknownSplitIdsNotFound ==
    \A c \in Calls :
        (call[c].pc \notin {"idle", "resolving"} /\ SplitOfUnknownIds(call[c].token)) =>
            /\ Done(c)
            /\ call[c].outcome = ErrorOutcome("Could not find synthesis pair")
            /\ call[c].log = <<>>
            /\ FindOneResult(results, call[c].token) = 0
            /\ responses = StoredPair

C12_Witness ==
    /\ Done(1)
    /\ call[1].token = <<3, 4>>
    /\ call[1].outcome.kind = "error"

\* C13: every SynthesisResult in the store has status completed, whatever
\* stages failed; no stage failure leaves a stored result failed or processing.
C13_StoredStatusCompleted ==
    \A i \in 1..Len(results) : results[i].status = "completed"

C13_Witness ==
    /\ call[1].saved # 0
    /\ call[1].failed = Stages
    /\ ~call[1].synthesis.success
    /\ results[call[1].saved].status = "completed"

\* the errors save() rejects with when nothing else has this token stored
WriteErrors == {"write failed", "ValidationError"}

\* C14: a request whose write of the SynthesisResult failed returns an error,
\* no SynthesisResult for its token is in the store, and neither response of
\* the pair has had its synthesisStatus changed.
C14_FailedWriteChangesNothing ==
    \A c \in Calls :
        (Done(c) /\ call[c].outcome.error \in WriteErrors) =>
            /\ call[c].outcome.kind = "error"
            /\ call[c].saved = 0
            /\ FindOneResult(results, call[c].token) = 0
            /\ responses[call[c].support].synthesisStatus = "pending"
            /\ responses[call[c].oppose].synthesisStatus = "pending"

C14_Witness ==
    /\ Done(1)
    /\ call[1].outcome.error = "write failed"
    /\ call[1].support = 1 /\ call[1].oppose = 2
    /\ call[1].mlResult.final_verdict = "support"

\* a stored SynthesisResult names the response as its support or oppose response
NamedByResult(i) ==
    \E k \in 1..Len(results) :
        results[k].supportResponseId = i \/ results[k].opposeResponseId = i

\* C15 as stated: a response is synthesized only if a stored SynthesisResult
\* names it as support or oppose response.
C15_SynthesizedOnlyByPipeline ==
    \A i \in 1..Len(responses) :
        responses[i].synthesisStatus = "synthesized" => NamedByResult(i)

\* C15 as amended: a response is synthesized only if a stored SynthesisResult
\* names it as support or oppose response or the response was marked through
\* PATCH /:responseId/synthesized; and no operation deletes a response.
C15_SynthesizedByPipelineOrPatch ==
    /\ \A i \in 1..Len(responses) :
          responses[i].synthesisStatus = "synthesized" =>
              NamedByResult(i) \/ responses[i].patched
    /\ Len(responses) >= Len(StoredPair)

C15_Witness ==
    /\ responses[1].synthesisStatus = "synthesized"
    /\ responses[2].synthesisStatus = "synthesized"
    /\ ~responses[1].patched /\ responses[2].patched
    /\ NamedByResult(1)

\* the errors of the store: the write of the SynthesisResult or the status update
PersistenceErrors ==
    {"write failed", "ValidationError", "E11000 duplicate key", "update failed"}

\* C16: a request that has terminated has returned exactly one of a complete
\* SynthesisResult, the pair-not-found error, or a persistence error, also when
\* workers never exit (their timers resolve them).
C16_TerminatesWithResultOrKnownError ==
    \A c \in Calls :
        Done(c) =>
            \/ /\ call[c].outcome.kind = "result"
               /\ call[c].outcome.content # NoContent
            \/ /\ call[c].outcome.kind = "error"
               /\ call[c].outcome.error
                     \in {"Could not find synthesis pair"} \cup PersistenceErrors

\* all responses that carried the key, whatever their status, when
\* findPairsForSynthesis answered
SharingKey(key) == {i \in 1..Len(pending.at) : pending.at[i].synthesisPairId = key}

C18_AllSucceedGivesWorkerValues ==
    \A c \in Calls :
        ( /\ Done(c)
          /\ Len(call[c].token) = 2 /\ ~StartsWithPair(call[c].token)
          /\ call[c].succeeded = Stages
          /\ call[c].synthesis.final_verdict \in Verdicts
          /\ call[c].synthesis.confidence # Undefined
          /\ call[c].synthesis.confidence[1] \in ConfidenceMin..ConfidenceMax
          /\ call[c].grok.explanation # ""
          /\ call[c].outcome.error \notin StoreErrors ) =>
            /\ call[c].outcome.kind = "result"
            /\ call[c].outcome.content.verdict = call[c].synthesis.final_verdict
            /\ call[c].outcome.content.confidence = call[c].synthesis.confidence[1]
            /\ call[c].outcome.content.reasoning = call[c].grok.explanation
            /\ results[call[c].outcome.content.id].status = "completed"
            /\ results[call[c].outcome.content.id].verdict = call[c].synthesis.final_verdict
            /\ results[call[c].outcome.content.id].confidence = call[c].synthesis.confidence[1]
            /\ responses[call[c].support].synthesisStatus = "synthesized"
            /\ responses[call[c].oppose].synthesisStatus = "synthesized"

\* C19 as stated: two resolutions of one token that both succeed return the
\* same support id and the same oppose id, whatever was created in between.
C19_SamePairEveryTime ==
    (probe.prev.found /\ probe.pair.found) => probe.pair = probe.prev

\* C19 as amended: two resolutions of one token that is not of the legacy form
\* ("pair_...") and that both succeed return the same support id and the same
\* oppose id, whatever was created in between.
C19_SamePairUnlessLegacy ==
    (probe.prev.found /\ probe.pair.found /\ ~StartsWithPair(probe.token)) =>
        probe.pair = probe.prev

C19_Witness ==
    /\ probe.token = <<1>>
    /\ probe.prev.found /\ probe.pair.found
    /\ probe.grown

\* C20: for each stage, two invocations whose workers exit the same way with
\* the same standard output resolve with the same stage result, and the same
\* verdict, confidence and scores are stored, whatever each worker wrote to
\* standard error.
C20_StderrNeverChangesResult ==
    (twin.client["a"].settled /\ twin.client["b"].settled) =>
        /\ twin.value["a"] = twin.value["b"]
        /\ twin.persisted["a"] = twin.persisted["b"]

C20_Witness ==
    /\ twin.stage = "synthesis" /\ twin.kind = "exitN"
    /\ twin.client["a"].settled /\ twin.client["b"].settled
    /\ ~twin.client["a"].output.parses
    /\ twin.client["a"].stderr = <<>>
    /\ twin.client["b"].stderr = <<"Traceback (most recent call last)">>
    /\ twin.client["b"].errorOutput # <<>>
    /\ twin.persisted["a"].stored

\* C21: for every stage, an invocation whose worker did not exit with code 0
\* with parseable standard output resolves with the stage's failure result,
\* whatever the worker wrote to standard output.
C21_BodyUsedOnlyOnCleanExit ==
    \A t \in Twins :
        (twin.client[t].settled
            /\ ~(twin.kind = "exit0" /\ twin.client[t].output.parses)) =>
            LET value == twin.value[t]
            IN  CASE twin.stage \in {"quality", "contradiction"} ->
                        value = StageFail(value.error) /\ value.error # ""
                  [] twin.stage = "synthesis" ->
                        /\ value.error \in SynthesisErrors
                        /\ value = GetFallbackResult(value.error)
                  [] twin.stage = "explanation" -> value = GrokFail

\* C22: when a stage's timer fires after the stage's budget and the worker is
\* still running, the worker is sent the termination signal and the invocation
\* is resolved, as a timeout unless it had been resolved before; the value an
\* invocation resolved with first is never replaced by a later event.
C22_TimeoutKillsAndResolvesOnce ==
    /\ ("timer" \in proc.events /\ proc.atTimer.state = "running") =>
          /\ proc.atTimer.elapsed = Budget(proc.stage)
          /\ proc.killed
          /\ proc.resolved
          /\ ~proc.atTimer.resolved =>
                /\ proc.log[1].by = "timer"
                /\ proc.value = SettleClient(proc.stage, "timeout", proc.client)
    /\ proc.resolved => proc.value = proc.log[1].value

C22_Witness ==
    /\ proc.stage = "synthesis"
    /\ proc.client.output.parses /\ proc.client.output.body = BaseMl
    /\ Len(proc.log) = 2
    /\ proc.log[1].by = "timer" /\ proc.log[2].by = "close"
    /\ proc.log[2].value = BaseMl
    /\ proc.value = GetFallbackResult("ML pipeline timeout (60s)")

\* C23: once the Synthesis worker has been started, the input it was handed
\* holds an evidence judgment and a contradiction analysis, each the object
\* its worker reported or the stage's fixed fallback, never an absent value.
C23_SynthesisInputComplete ==
    call[1].mlData # NoMlData =>
        /\ call[1].mlData.evidence_judgment \in {"real", "fallback"}
        /\ call[1].mlData.contradiction_analysis \in {"real", "fallback"}

\* C24: whenever a runSynthesis call has returned a result, freshly computed
\* or cached, both responses named by that result have synthesisStatus
\* "synthesized".
C24_ReturnedResultMeansSynthesized ==
    \A c \in Calls :
        call[c].outcome.kind = "result" =>
            LET doc == results[call[c].outcome.content.id]
            IN  /\ responses[doc.supportResponseId].synthesisStatus = "synthesized"
                /\ responses[doc.opposeResponseId].synthesisStatus = "synthesized"

\* C25: the store never holds two SynthesisResult documents for the same two
\* responses, whatever forms of token the requests used.
C25_OneResultPerPair ==
    \A i, j \in 1..Len(results) :
        {results[i].supportResponseId, results[i].opposeResponseId}
            = {results[j].supportResponseId, results[j].opposeResponseId} => i = j

\* C26 as stated: a request whose Synthesis worker exited cleanly with a
\* confidence outside [0,1] or a verdict outside the enumeration ends with an
\* error, no result stored and both responses pending.
C26_InvalidValuesRejected ==
    LET ml == call[1].synthesis
    IN  (/\ Done(1) /\ ~ml.isNull /\ "synthesis" \notin call[1].failed
         /\ \/ ml.final_verdict \notin Verdicts
            \/ /\ ml.confidence # Undefined
               /\ ml.confidence[1] < ConfidenceMin \/ ml.confidence[1] > ConfidenceMax) =>
            /\ call[1].outcome.kind = "error"
            /\ results = <<>>
            /\ \A i \in 1..Len(responses) : responses[i].synthesisStatus = "pending"

\* C26 as amended: the same for a confidence outside [0,1] or a non-empty
\* verdict outside the enumeration.
C26_InvalidNonEmptyValuesRejected ==
    LET ml == call[1].synthesis
    IN  (/\ Done(1) /\ ~ml.isNull /\ "synthesis" \notin call[1].failed
         /\ \/ ml.final_verdict \notin Verdicts \cup {""}
            \/ /\ ml.confidence # Undefined
               /\ ml.confidence[1] < ConfidenceMin \/ ml.confidence[1] > ConfidenceMax) =>
            /\ call[1].outcome.kind = "error"
            /\ results = <<>>
            /\ \A i \in 1..Len(responses) : responses[i].synthesisStatus = "pending"

C26_Witness ==
    /\ Done(1) /\ "synthesis" \notin call[1].failed
    /\ call[1].synthesis.final_verdict = "bogus"
    /\ call[1].synthesis.confidence = Num(89)
    /\ call[1].outcome.error = "ValidationError"

\* C27: a pair returned by _findPairedResponses has a response of agentType
\* "support" in the support position and one of agentType "oppose" in the
\* oppose position.
C27_PositionsMatchAgentTypes ==
    probe.pair.found =>
        /\ responses[probe.pair.support].agentType = "support"
        /\ responses[probe.pair.oppose].agentType = "oppose"

\* C28: a pair found by the single-id strategy is the response asked for and
\* the response its synthesisPairId refers to, the one of agentType "support"
\* in the support position and the one of agentType "oppose" in the oppose
\* position; asking with the other member's id gives the same pair.
C28_SingleIdSameAssignment ==
    LET n == Len(probe.attempts)
    IN  (n > 0 /\ probe.attempts[n].strategy = "single"
               /\ probe.attempts[n].outcome = "found") =>
            LET main == probe.token[1]
                counterpart == responses[main].synthesisPairId
                other == SingleIdStrategy(responses, <<counterpart>>, {})
            IN  /\ {probe.pair.support, probe.pair.oppose} = {main, counterpart}
                /\ responses[probe.pair.support].agentType = "support"
                /\ responses[probe.pair.oppose].agentType = "oppose"
                /\ other.found => other = probe.pair

C28_Witness ==
    /\ probe.token = <<2>>
    /\ probe.attempts[Len(probe.attempts)].strategy = "single"
    /\ probe.pair = Pair(1, 2)
    /\ SingleIdStrategy(responses, <<1>>, {}) = Pair(1, 2)

\* C29 as stated: a pair found for a legacy token comes from one session
\* that, among the responses scanned, holds exactly one support response and
\* exactly one oppose response.
C29_LegacyExactlyOneOfEach ==
    (StartsWithPair(probe.token) /\ probe.pair.found) =>
        LET sid == responses[probe.pair.support].sessionId
            ofType(type) == {i \in 1..probe.len : /\ responses[i].sessionId = sid
                                                  /\ responses[i].agentType = type}
        IN  /\ responses[probe.pair.oppose].sessionId = sid
            /\ ofType("support") = {probe.pair.support}
            /\ ofType("oppose") = {probe.pair.oppose}

\* C29 as amended: a pair found for a legacy token comes from one session
\* that, among the responses scanned, holds at least one support response and
\* at least one oppose response, and is the newest response of each type in it.
C29_LegacyNewestOfEach ==
    (StartsWithPair(probe.token) /\ probe.pair.found) =>
        LET sid == responses[probe.pair.support].sessionId
            ofType(type) == {i \in 1..probe.len : /\ responses[i].sessionId = sid
                                                  /\ responses[i].agentType = type}
        IN  /\ responses[probe.pair.oppose].sessionId = sid
            /\ probe.pair.support \in ofType("support")
            /\ probe.pair.oppose \in ofType("oppose")
            /\ \A i \in ofType("support") : i <= probe.pair.support
            /\ \A i \in ofType("oppose") : i <= probe.pair.oppose

C29_Witness ==
    /\ StartsWithPair(probe.token) /\ probe.pair = Pair(3, 2)
    /\ probe.len = 3
    /\ responses[1].sessionId = responses[3].sessionId
    /\ responses[1].agentType = "support"

\* C30: the cross-reference strategy finds a pair only when exactly two
\* responses have a synthesisPairId equal to the token, one of agentType
\* "support" and one of agentType "oppose"; when it finds none, the single-id
\* strategy is tried next.
C30_CrossReferenceExactlyTwo ==
    \A k \in 1..Len(probe.attempts) :
        probe.attempts[k].strategy = "xref" =>
            LET matches == {i \in 1..Len(responses) :
                              responses[i].synthesisPairId = probe.token[1]}
                pair == probe.attempts[k].pair
            IN  IF probe.attempts[k].outcome = "found"
                THEN /\ IsObjectId(probe.token)
                     /\ Cardinality(matches) = 2
                     /\ matches = {pair.support, pair.oppose}
                     /\ responses[pair.support].agentType = "support"
                     /\ responses[pair.oppose].agentType = "oppose"
                ELSE /\ k < Len(probe.attempts)
                     /\ probe.attempts[k + 1].strategy = "single"

C30_Witness ==
    /\ probe.token = <<1>>
    /\ Len(probe.attempts) = 2
    /\ probe.attempts[1].strategy = "xref" /\ probe.attempts[1].outcome = "miss"
    /\ Cardinality({i \in 1..Len(responses) : responses[i].synthesisPairId = 1}) = 1
    /\ probe.attempts[2].strategy = "single" /\ probe.attempts[2].outcome = "found"

\* C31: a request that has ended after its pair was resolved started each of
\* the four workers exactly once; a request that ended on a cache hit or
\* without a pair started none.
C31_EachWorkerStartedOnce ==
    \A c \in Calls :
        Done(c) =>
            IF call[c].support # 0
            THEN \A stage \in Stages :
                    Cardinality({k \in 1..Len(call[c].log) :
                                    call[c].log[k] = Event(stage, "start")}) = 1
            ELSE call[c].log = <<>>

\* C32: when findPairsForSynthesis answers while two responses linked to each
\* other by saveBothGeminiResponses are both pending, the answer names that
\* pair, unless the answer is filled by other pairs.
C32_LinkedPendingPairReturned ==
    pending.asked =>
        \A s, o \in 1..Len(pending.at) :
            (/\ pending.at[s].agentType = "support"
             /\ pending.at[o].agentType = "oppose"
             /\ pending.at[s].synthesisPairId = o
             /\ pending.at[o].synthesisPairId = s
             /\ pending.at[s].synthesisStatus = "pending"
             /\ pending.at[o].synthesisStatus = "pending") =>
                \/ \E k \in 1..Len(pending.pairs) : pending.pairs[k] \in {s, o}
                \/ \E k \in 1..Len(pending.pairs) : pending.pairs[k] \notin {s, o}

C34_StatsConsistent ==
    stats.pc = "done" =>
        /\ stats.total = stats.byVerdict["support"] + stats.byVerdict["oppose"]
                            + stats.byVerdict["inconclusive"] + stats.byVerdict["mixed"]
        /\ stats.recentCount <= stats.total

====
